---- MODULE Spec2Model ----
(***************************************************************************)
(* A model of the XRF-Maps streaming core:                                 *)
(*   - Integrated_Spectra_Stream_Producer::cb_load_spectra_data            *)
(*     (the frame accumulator),                                            *)
(*   - Spectra_Net_Streamer::stream (the publish sink),                    *)
(*   - ROI_Fit_Routine::fit_spectra (the ROI fit).                         *)
(* Each component has its own specification over the shared variables; the *)
(* variables of the other components keep their initial value.             *)
(***************************************************************************)
EXTENDS Integers, Sequences, FiniteSets, TLC

\* ------------------------------------------------------------------------
\* Bounds of the model
\* ------------------------------------------------------------------------

\* number of ingest calls made in one behaviour
MaxCalls == 3
\* the scan extent passed to every call; the sentinel is row = Height, col = Width
Height == 1
Width == 1
\* channels of a spectrum in the accumulator model
NChannels == 2
\* number of stream() calls made in one behaviour
MaxPublish == 2
\* spectrum lengths 1 .. MaxN (and 2048) in the ROI fit
MaxN == 5
\* times the endpoint's release is run
MaxRelease == 2

\* two detector ids, two producer threads
Detectors == {0, 1}
Threads == {1, 2}
\* the thread of the sequential specification
SeqThreads == {1}
Positions == (0 .. Height) \X (0 .. Width)
\* the spectra a fragment may carry: channel c holds w * c
Weights == {1, 2}
FragSpectra == { [c \in 1 .. NChannels |-> w * c] : w \in Weights }

VARIABLES
    \* ---- Integrated_Spectra_Stream_Producer
    stream_block_list,      \* std::map detector_num -> Stream_Block* (0: no entry)
    output_callback_func,   \* TRUE: a callback is registered, FALSE: nullptr
    heap,                   \* the allocated Stream_Block objects, by address
    pc,                     \* per thread: the statement it executes next
    args,                   \* per thread: the arguments of its current call
    stream_block,           \* per thread: the local pointer stream_block (line 89)
    ncalls,                 \* calls started so far
    \* ---- history (not program state)
    ingested,               \* per detector: sum of the fragments ingested since the Frame
                            \* now pending was created (zero when none is pending)
    owed,                   \* per detector: sum of the fragments ingested, less the spectra
                            \* of the Frames handed to the callback or discarded
    delivered,              \* per detector: the spectrum of the Frame handed to the callback
                            \* since the last call for the detector began (<<>>: none)
    last_pos,               \* per detector: position of the last fragment of the running frame
    in_order,               \* per detector: every frame so far came in increasing scan order
    fired,                  \* per thread: callback invocations during its current call
    released,               \* per thread: Frames deleted (no callback) during its current call
    frag                    \* per thread: what became of the fragment of its current call:
                            \* owned (a Frame holds the pointer), deleted (times deleted)

accVars == <<stream_block_list, output_callback_func, heap, pc, args, stream_block,
             ncalls, ingested, owed, delivered, last_pos, in_order, fired, released,
             frag>>

VARIABLES
    \* ---- Spectra_Net_Streamer
    send_counts,            \* _send_counts
    send_spectra,           \* _send_spectra
    sink_pc,                \* per thread: the statement of stream() it executes next
    sink_block,             \* per thread: the stream_block passed to its current call
    data,                   \* per thread: the local std::string data
    val,                    \* per thread: the local bool val
    logit,                  \* number of "Error sending ZMQ message" lines logged
    npublish,               \* stream() calls started so far
    \* ---- history (not program state)
    wire,                   \* the parts handed to _zmq_socket->send, in order
    call_id,                \* per thread: the number of its current call
    logged                  \* per thread: lines logged during its current call

sinkVars == <<send_counts, send_spectra, sink_pc, sink_block, data, val, logit,
              npublish, wire, call_id, logged>>

VARIABLES
    \* ---- ROI_Fit_Routine
    roi_pc,                 \* "call": fit_spectra is about to run, "done": it returned
    roi_in,                 \* the inputs of the call, for one element
    roi_out                 \* what the call computed for the element

roiVars == <<roi_pc, roi_in, roi_out>>

VARIABLES
    \* ---- the endpoint of Spectra_Net_Streamer
    zmq_socket,             \* _zmq_socket: 1 the socket object, 0 nullptr
    context,                \* _context: 1 the context object, 0 nullptr
    nrelease,               \* times the release of ~Spectra_Net_Streamer has run
    \* ---- history (not program state)
    freed                   \* how often the socket and the context were closed and deleted

endVars == <<zmq_socket, context, nrelease, freed>>

VARIABLES
    \* ---- the Sink base of Spectra_Net_Streamer, as the receiver of the callback
    input_queue,            \* the Stream_Blocks pushed by the callback, not yet taken
    worker                  \* the Stream_Block the sink's thread is sending (0: none)

pipeVars == <<input_queue, worker>>

vars == <<accVars, sinkVars, roiVars, endVars, pipeVars>>

AccOnly == UNCHANGED <<sinkVars, roiVars, endVars, pipeVars>>
SinkOnly == UNCHANGED <<accVars, roiVars, endVars, pipeVars>>
RoiOnly == UNCHANGED <<accVars, sinkVars, endVars, pipeVars>>
EndOnly == UNCHANGED <<accVars, sinkVars, roiVars, pipeVars>>

\* ------------------------------------------------------------------------
\* Data
\* ------------------------------------------------------------------------

NoCall == [row |-> 0, col |-> 0, height |-> 0, width |-> 0, detector_num |-> 0,
           spectra |-> <<>>, first |-> FALSE]
NoPos == <<-1, -1>>
Zero == [c \in 1 .. NChannels |-> 0]

\* data_struct::xrf::Stream_Block(row, col, height, width), then the assignments
\* of lines 82-84. owner: "producer" while the accumulator owns it, "consumer"
\* once handed to the callback.
Stream_Block(row, col, height, width, spectra, detector_num) ==
    [row |-> row, col |-> col, height |-> height, width |-> width,
     spectra |-> spectra, detector_number |-> detector_num, owner |-> "producer"]

\* a Stream_Block the callback has taken: its contents are the consumer's, the
\* accumulator has no further business with them
Handed(blk) ==
    [row |-> 0, col |-> 0, height |-> 0, width |-> 0, spectra |-> Zero,
     detector_number |-> blk.detector_number, owner |-> "consumer"]

\* operator new: the lowest free address (a freed address is used again)
NewAddr ==
    CHOOSE a \in 1 .. (Cardinality(DOMAIN heap) + 1) :
        /\ a \notin DOMAIN heap
        /\ \A b \in 1 .. (a - 1) : b \in DOMAIN heap

\* operator delete
Free(h, b) == [a \in (DOMAIN h) \ {b} |-> h[a]]

\* Spectra::add: element-wise in-place addition
SpectraAdd(a, b) == [c \in 1 .. NChannels |-> a[c] + b[c]]

\* (mutation) || for &&
IsCompleteOr(c) == c.col = c.width \/ c.row = c.height

\* line 94: col == width && row == height
IsComplete(c) == c.col = c.width /\ c.row = c.height

\* the completion sentinel, as the driver sees it (history and properties)
Sentinel(c) == c.row = c.height /\ c.col = c.width

\* lexicographic scan order of positions <<row, col>>
ScanBefore(p, q) == p[1] < q[1] \/ (p[1] = q[1] /\ p[2] < q[2])

\* ------------------------------------------------------------------------
\* std::map operations. Two threads that are both at a map operation, one of
\* them a write, race (no lock guards _stream_block_list): the write may be
\* lost and the read may return either answer.
\* ------------------------------------------------------------------------

MapReadPc == {"count", "at"}
MapWritePc == {"insert", "erase"}

Racing(t) ==
    \E u \in Threads \ {t} :
        /\ pc[u] \in MapReadPc \cup MapWritePc
        /\ (pc[t] \in MapWritePc \/ pc[u] \in MapWritePc)

\* _stream_block_list.count(detector_num) == 0
CountIsZero(t) ==
    {stream_block_list[args[t].detector_num] = 0}
        \cup (IF Racing(t) THEN BOOLEAN ELSE {})

\* _stream_block_list.insert({detector_num, stream_block}): no effect on an
\* existing key
MapInsert(t, d, b) ==
    {IF stream_block_list[d] = 0
        THEN [stream_block_list EXCEPT ![d] = b]
        ELSE stream_block_list}
        \cup (IF Racing(t) THEN {stream_block_list} ELSE {})

\* _stream_block_list.at(detector_num): 0 stands for std::out_of_range thrown
MapAt(t, d) ==
    {stream_block_list[d]} \cup (IF Racing(t) THEN {0} ELSE {})

\* _stream_block_list.erase(detector_num)
MapErase(t, d) ==
    {[stream_block_list EXCEPT ![d] = 0]}
        \cup (IF Racing(t) THEN {stream_block_list} ELSE {})

\* two threads at line 91 on the same Stream_Block race on its spectrum: one
\* of the two read-modify-write additions may be lost
AddRacing(t) ==
    \E u \in Threads \ {t} : pc[u] = "add" /\ stream_block[u] = stream_block[t]

\* (mutation) the fragment replaces the cumulative spectrum
FoldFragmentAssign(t, blk) ==
    {[blk EXCEPT !.spectra = args[t].spectra]}

\* line 91: stream_block->spectra->add(*spectra)
FoldFragment(t, blk) ==
    {[blk EXCEPT !.spectra = SpectraAdd(@, args[t].spectra)]}
        \cup (IF AddRacing(t) THEN {blk} ELSE {})

\* ------------------------------------------------------------------------
\* Integrated_Spectra_Stream_Producer
\* ------------------------------------------------------------------------

\* a fragment still in the caller's hands
NoFrag == [owned |-> FALSE, deleted |-> 0]

AccInit ==
    /\ stream_block_list = [d \in Detectors |-> 0]
    /\ output_callback_func \in BOOLEAN
    /\ heap = <<>>
    /\ pc = [t \in Threads |-> "idle"]
    /\ args = [t \in Threads |-> NoCall]
    /\ stream_block = [t \in Threads |-> 0]
    /\ ncalls = 0
    /\ ingested = [d \in Detectors |-> Zero]
    /\ owed = [d \in Detectors |-> Zero]
    /\ delivered = [d \in Detectors |-> <<>>]
    /\ last_pos = [d \in Detectors |-> NoPos]
    /\ in_order = [d \in Detectors |-> TRUE]
    /\ fired = [t \in Threads |-> 0]
    /\ released = [t \in Threads |-> 0]
    /\ frag = [t \in Threads |-> NoFrag]

\* element-wise difference (history only)
SpectraSub(a, b) == [c \in 1 .. NChannels |-> a[c] - b[c]]

\* a producer thread calls cb_load_spectra_data(row, col, height, width,
\* detector_num, spectra, user_data) with a fresh fragment for a detector of D
Enter(t, D) ==
    /\ pc[t] \in {"idle", "done", "threw"}
    /\ ncalls < MaxCalls
    /\ \E pos \in Positions, d \in D, s \in FragSpectra :
        LET call == [row |-> pos[1], col |-> pos[2], height |-> Height,
                     width |-> Width, detector_num |-> d, spectra |-> s,
                     \* history: the first fragment of a frame, as the driver sees it
                     \* (none before it, or the one before it was a sentinel)
                     first |-> last_pos[d] = NoPos]
        IN  /\ args' = [args EXCEPT ![t] = call]
            /\ ingested' = [ingested EXCEPT ![d] = SpectraAdd(@, s)]
            /\ owed' = [owed EXCEPT ![d] = SpectraAdd(@, s)]
            /\ delivered' = [delivered EXCEPT ![d] = <<>>]
            /\ in_order' = [in_order EXCEPT ![d] =
                                @ /\ (last_pos[d] = NoPos \/ ScanBefore(last_pos[d], pos))]
            /\ last_pos' = [last_pos EXCEPT ![d] = IF Sentinel(call) THEN NoPos ELSE pos]
    /\ pc' = [pc EXCEPT ![t] = "count"]
    /\ ncalls' = ncalls + 1
    /\ fired' = [fired EXCEPT ![t] = 0]
    /\ released' = [released EXCEPT ![t] = 0]
    /\ frag' = [frag EXCEPT ![t] = NoFrag]
    /\ stream_block' = [stream_block EXCEPT ![t] = 0]
    /\ UNCHANGED <<stream_block_list, output_callback_func, heap>>
    /\ AccOnly

\* a call for any detector
cb_load_spectra_data(t) == Enter(t, Detectors)

\* a call of a thread that feeds one detector only: thread 1 detector 0, thread
\* 2 detector 1
cb_load_spectra_data_own(t) == Enter(t, {t - 1})

\* line 76: if(_stream_block_list.count(detector_num) == 0)
count_detector(t) ==
    /\ pc[t] = "count"
    /\ \E z \in CountIsZero(t) :
        pc' = [pc EXCEPT ![t] = IF z THEN "insert" ELSE "at"]
    /\ UNCHANGED <<stream_block_list, output_callback_func, heap, args, stream_block,
                   ncalls, ingested, owed, delivered, last_pos, in_order, fired, released, frag>>
    /\ AccOnly

\* lines 78-85: a new Stream_Block seeded with the fragment, inserted in the map
insert_stream_block(t) ==
    /\ pc[t] = "insert"
    /\ LET a == args[t]
           b == NewAddr
       IN  /\ heap' = (b :> Stream_Block(a.row, a.col, a.height, a.width,
                                         a.spectra, a.detector_num)) @@ heap
           /\ stream_block_list' \in MapInsert(t, a.detector_num, b)
           /\ ingested' = [ingested EXCEPT ![a.detector_num] = a.spectra]
    \* line 82: stream_block->spectra = spectra
    /\ frag' = [frag EXCEPT ![t].owned = TRUE]
    /\ pc' = [pc EXCEPT ![t] = "done"]
    /\ UNCHANGED <<output_callback_func, args, stream_block, ncalls, owed, delivered,
                   last_pos, in_order, fired, released>>
    /\ AccOnly

\* line 89: stream_block = _stream_block_list.at(detector_num)
at_detector(t) ==
    /\ pc[t] = "at"
    /\ \E p \in MapAt(t, args[t].detector_num) :
        /\ stream_block' = [stream_block EXCEPT ![t] = p]
        /\ pc' = [pc EXCEPT ![t] = IF p = 0 THEN "threw" ELSE "add"]
    /\ UNCHANGED <<stream_block_list, output_callback_func, heap, args, ncalls,
                   ingested, owed, delivered, last_pos, in_order, fired, released, frag>>
    /\ AccOnly

\* (mutation) the fragment is deleted a second time
DeleteSpectraTwice(n) == n + 2

\* line 92: delete spectra
DeleteSpectra(n) == n + 1

\* lines 91-92: the fragment is added into the Frame and deleted. A pointer to a
\* Stream_Block that was freed meanwhile writes to whatever lives at the address.
add_spectra(t) ==
    /\ pc[t] = "add"
    /\ IF stream_block[t] \in DOMAIN heap
          THEN \E blk \in FoldFragment(t, heap[stream_block[t]]) :
                    heap' = [heap EXCEPT ![stream_block[t]] = blk]
          ELSE heap' = heap
    /\ frag' = [frag EXCEPT ![t].deleted = DeleteSpectra(@)]
    /\ pc' = [pc EXCEPT ![t] = "test"]
    /\ UNCHANGED <<stream_block_list, output_callback_func, args, stream_block, ncalls,
                   ingested, owed, delivered, last_pos, in_order, fired, released>>
    /\ AccOnly

\* lines 94-96: the completion test, then the test of _output_callback_func
test_complete(t) ==
    /\ pc[t] = "test"
    /\ pc' = [pc EXCEPT ![t] =
                IF IsComplete(args[t])
                    THEN (IF output_callback_func THEN "callback" ELSE "delete")
                    ELSE "done"]
    /\ UNCHANGED <<stream_block_list, output_callback_func, heap, args, stream_block,
                   ncalls, ingested, owed, delivered, last_pos, in_order, fired, released, frag>>
    /\ AccOnly

\* line 98: _output_callback_func(stream_block): the consumer owns the Frame;
\* next is where the thread stands afterwards
HandOff(t, next) ==
    /\ pc[t] = "callback"
    /\ LET b == stream_block[t]
       IN  IF b \in DOMAIN heap
             THEN /\ delivered' = [delivered EXCEPT ![heap[b].detector_number] =
                                        heap[b].spectra]
                  /\ owed' = [owed EXCEPT ![heap[b].detector_number] =
                                    SpectraSub(@, heap[b].spectra)]
                  /\ heap' = [heap EXCEPT ![b] = Handed(heap[b])]
             ELSE UNCHANGED <<delivered, owed, heap>>
    /\ fired' = [fired EXCEPT ![t] = @ + 1]
    /\ pc' = [pc EXCEPT ![t] = next]
    /\ UNCHANGED <<stream_block_list, output_callback_func, args, stream_block, ncalls,
                   ingested, last_pos, in_order, released, frag>>

\* line 98, the callback taken as one step
output_callback(t) ==
    /\ HandOff(t, "erase")
    /\ AccOnly

\* line 102: delete stream_block
delete_stream_block(t) ==
    /\ pc[t] = "delete"
    /\ heap' = Free(heap, stream_block[t])
    /\ owed' = IF stream_block[t] \in DOMAIN heap
                THEN [owed EXCEPT ![heap[stream_block[t]].detector_number] =
                            SpectraSub(@, heap[stream_block[t]].spectra)]
                ELSE owed
    /\ released' = [released EXCEPT ![t] = @ + 1]
    /\ pc' = [pc EXCEPT ![t] = "erase"]
    /\ UNCHANGED <<stream_block_list, output_callback_func, args, stream_block, ncalls,
                   ingested, delivered, last_pos, in_order, fired, frag>>
    /\ AccOnly

\* line 104: _stream_block_list.erase(detector_num)
erase_detector(t) ==
    /\ pc[t] = "erase"
    /\ stream_block_list' \in MapErase(t, args[t].detector_num)
    /\ ingested' = [ingested EXCEPT ![args[t].detector_num] =
                        IF stream_block_list'[args[t].detector_num] = 0 THEN Zero ELSE @]
    /\ pc' = [pc EXCEPT ![t] = "done"]
    /\ UNCHANGED <<output_callback_func, heap, args, stream_block, ncalls, owed,
                   delivered, last_pos, in_order, fired, released, frag>>
    /\ AccOnly

\* the receiver of the callback releases a Frame it was handed, when it is done
\* with it
consumer_release ==
    /\ \E b \in DOMAIN heap :
        /\ heap[b].owner = "consumer"
        /\ heap' = Free(heap, b)
    /\ UNCHANGED <<stream_block_list, output_callback_func, pc, args, stream_block,
                   ncalls, ingested, owed, delivered, last_pos, in_order, fired, released, frag>>
    /\ AccOnly

\* Integrated_Spectra_Stream_Producer::~Integrated_Spectra_Stream_Producer(),
\* lines 66-69: _stream_block_list.clear(); the map holds plain pointers, so no
\* Stream_Block is deleted. No call is running and none follows.
destructor ==
    /\ \A t \in Threads : pc[t] \in {"idle", "done", "threw"}
    /\ stream_block_list' = [d \in Detectors |-> 0]
    /\ pc' = [t \in Threads |-> "destroyed"]
    /\ UNCHANGED <<output_callback_func, heap, args, stream_block, ncalls, ingested,
                   owed, delivered, last_pos, in_order, fired, released, frag>>
    /\ AccOnly

\* line 98 with the callback bound to the sink's queue: the call pushes the
\* Stream_Block on the queue of the sink
callback_call(t) ==
    /\ HandOff(t, "in_callback")
    /\ input_queue' = Append(input_queue, stream_block[t])
    /\ UNCHANGED <<worker, sinkVars, roiVars, endVars>>

\* (mutation) the callback returns when the Stream_Block has been sent
ReturnsAfterSend(t) ==
    /\ worker # stream_block[t]
    /\ \A i \in 1 .. Len(input_queue) : input_queue[i] # stream_block[t]

\* the push returns without waiting for the sink
Returns(t) == TRUE

\* line 98: the callback returns to cb_load_spectra_data
callback_return(t) ==
    /\ pc[t] = "in_callback"
    /\ Returns(t)
    /\ pc' = [pc EXCEPT ![t] = "erase"]
    /\ UNCHANGED <<stream_block_list, output_callback_func, heap, args, stream_block,
                   ncalls, ingested, owed, delivered, last_pos, in_order, fired,
                   released, frag>>
    /\ AccOnly

\* the sink's thread takes the next Stream_Block and calls stream() on it
sink_function ==
    /\ worker = 0
    /\ input_queue # <<>>
    /\ worker' = Head(input_queue)
    /\ input_queue' = Tail(input_queue)
    /\ UNCHANGED <<accVars, sinkVars, roiVars, endVars>>

\* stream() returns in the sink's thread (its sends may take any time, or block
\* for ever); the sink is done with the Stream_Block
stream_returns ==
    /\ worker # 0
    /\ heap' = Free(heap, worker)
    /\ worker' = 0
    /\ UNCHANGED <<stream_block_list, output_callback_func, pc, args, stream_block,
                   ncalls, ingested, owed, delivered, last_pos, in_order, fired,
                   released, frag>>
    /\ UNCHANGED <<input_queue, sinkVars, roiVars, endVars>>

\* the statements of a call whose callback is the push on the sink's queue
PipeStatement(t) ==
    \/ count_detector(t)
    \/ insert_stream_block(t)
    \/ at_detector(t)
    \/ add_spectra(t)
    \/ test_complete(t)
    \/ callback_call(t)
    \/ callback_return(t)
    \/ delete_stream_block(t)
    \/ erase_detector(t)

\* the statements of a call that has been entered
Statement(t) ==
    \/ count_detector(t)
    \/ insert_stream_block(t)
    \/ at_detector(t)
    \/ add_spectra(t)
    \/ test_complete(t)
    \/ output_callback(t)
    \/ delete_stream_block(t)
    \/ erase_detector(t)

\* ------------------------------------------------------------------------
\* Spectra_Net_Streamer (built with _BUILD_WITH_ZMQ)
\* ------------------------------------------------------------------------

\* the Stream_Blocks passed to stream()
SinkBlocks == {1, 2}

NoneFreed == [socket_close |-> 0, socket_delete |-> 0,
              context_close |-> 0, context_delete |-> 0]

\* Spectra_Net_Streamer::Spectra_Net_Streamer(): counts mode
SinkInit ==
    /\ send_counts = TRUE
    /\ send_spectra = FALSE
    /\ sink_pc = [t \in Threads |-> "idle"]
    /\ sink_block = [t \in Threads |-> 0]
    /\ data = [t \in Threads |-> ""]
    /\ val = [t \in Threads |-> TRUE]
    /\ logit = 0
    /\ npublish = 0
    /\ wire = <<>>
    /\ call_id = [t \in Threads |-> 0]
    /\ logged = [t \in Threads |-> 0]
    \* lines 69-70: new zmq::context_t(1), new zmq::socket_t(*_context, ZMQ_PUB)
    /\ zmq_socket = 1
    /\ context = 1
    /\ nrelease = 0
    /\ freed = NoneFreed
    \* Sink<data_struct::xrf::Stream_Block*>()
    /\ input_queue = <<>>
    /\ worker = 0

\* _serializer.encode_counts(stream_block): a payload that names the block
encode_counts(b) == IF b = 1 THEN "counts(1)" ELSE "counts(2)"

\* _serializer.encode_spectra(stream_block), the call of line 108
encode_spectra(b) == IF b = 1 THEN "spectra(1)" ELSE "spectra(2)"

\* zmq::message_t(buf, size)
message_t(buf, size) == [data |-> buf, size |-> size]

\* (mutation) the payload is left empty, as in the spectra branch
EncodePayloadEmpty(t) == ""

\* lines 100-109: std::string data; the spectra branch assigns nothing
EncodePayload(t) ==
    IF send_counts THEN encode_counts(sink_block[t])
    ELSE IF send_spectra THEN ""
    ELSE ""

\* line 111: zmq::message_t topic("XRF-Counts", 10)
Topic == message_t("XRF-Counts", 10)

\* line 112: zmq::message_t message(data.c_str(), data.length())
Message(t) == message_t(data[t], Len(data[t]))

\* a part handed to _zmq_socket->send(msg, flags); ok is what send returned
Part(t, msg, sndmore, ok) ==
    [msg |-> msg, sndmore |-> sndmore, call |-> call_id[t], ok |-> ok]

\* set_send_spectra(b), called on the streamer before it publishes
set_send_spectra ==
    /\ npublish = 0 /\ nrelease = 0
    /\ \E b \in BOOLEAN : send_spectra' = b
    /\ send_spectra' # send_spectra
    /\ UNCHANGED <<send_counts, sink_pc, sink_block, data, val, logit, npublish, wire,
                   call_id, logged>>
    /\ SinkOnly

\* set_send_counts(b), called on the streamer before it publishes
set_send_counts ==
    /\ npublish = 0 /\ nrelease = 0
    /\ \E b \in BOOLEAN : send_counts' = b
    /\ send_counts' # send_counts
    /\ UNCHANGED <<send_spectra, sink_pc, sink_block, data, val, logit, npublish, wire,
                   call_id, logged>>
    /\ SinkOnly

\* a thread calls stream(stream_block)
stream(t) ==
    /\ sink_pc[t] \in {"idle", "done"}
    /\ npublish < MaxPublish
    /\ nrelease = 0
    /\ \E b \in SinkBlocks : sink_block' = [sink_block EXCEPT ![t] = b]
    /\ npublish' = npublish + 1
    /\ call_id' = [call_id EXCEPT ![t] = npublish + 1]
    /\ logged' = [logged EXCEPT ![t] = 0]
    /\ data' = [data EXCEPT ![t] = ""]
    /\ sink_pc' = [sink_pc EXCEPT ![t] = "encode"]
    /\ UNCHANGED <<send_counts, send_spectra, val, logit, wire>>
    /\ SinkOnly

\* lines 100-109
encode(t) ==
    /\ sink_pc[t] = "encode"
    /\ data' = [data EXCEPT ![t] = EncodePayload(t)]
    /\ sink_pc' = [sink_pc EXCEPT ![t] = "send_topic"]
    /\ UNCHANGED <<send_counts, send_spectra, sink_block, val, logit, npublish, wire,
                   call_id, logged>>
    /\ SinkOnly

\* lines 111-114: _zmq_socket->send(topic, ZMQ_SNDMORE); the result is dropped
send_topic(t) ==
    /\ sink_pc[t] = "send_topic"
    /\ \E ok \in BOOLEAN : wire' = Append(wire, Part(t, Topic, TRUE, ok))
    /\ sink_pc' = [sink_pc EXCEPT ![t] = "send_message"]
    /\ UNCHANGED <<send_counts, send_spectra, sink_block, data, val, logit, npublish,
                   call_id, logged>>
    /\ SinkOnly

\* line 115: bool val = _zmq_socket->send(message, 0)
send_message(t) ==
    /\ sink_pc[t] = "send_message"
    /\ \E ok \in BOOLEAN :
        /\ wire' = Append(wire, Part(t, Message(t), FALSE, ok))
        /\ val' = [val EXCEPT ![t] = ok]
    /\ sink_pc' = [sink_pc EXCEPT ![t] = "check"]
    /\ UNCHANGED <<send_counts, send_spectra, sink_block, data, logit, npublish,
                   call_id, logged>>
    /\ SinkOnly

\* lines 116-119: if (val == false) logit << "Error sending ZMQ message"
check_val(t) ==
    /\ sink_pc[t] = "check"
    /\ logit' = IF val[t] = FALSE THEN logit + 1 ELSE logit
    /\ logged' = [logged EXCEPT ![t] = IF val[t] = FALSE THEN @ + 1 ELSE @]
    /\ sink_pc' = [sink_pc EXCEPT ![t] = "done"]
    /\ UNCHANGED <<send_counts, send_spectra, sink_block, data, val, npublish, wire,
                   call_id>>
    /\ SinkOnly

\* (mutation) the pointer is left as it was
Keep(p) == p

\* lines 90-91: _zmq_socket = nullptr; _context = nullptr
Nullptr(p) == 0

\* Spectra_Net_Streamer::~Spectra_Net_Streamer(), lines 80-91, run as the release
\* of the endpoint (again on an endpoint already released, when nrelease > 0)
release ==
    /\ nrelease < MaxRelease
    /\ \A t \in Threads : sink_pc[t] \in {"idle", "done"}
    /\ freed' = [socket_close |-> freed.socket_close + (IF zmq_socket # 0 THEN 1 ELSE 0),
                 socket_delete |-> freed.socket_delete + (IF zmq_socket # 0 THEN 1 ELSE 0),
                 context_close |-> freed.context_close + (IF context # 0 THEN 1 ELSE 0),
                 context_delete |-> freed.context_delete + (IF context # 0 THEN 1 ELSE 0)]
    /\ zmq_socket' = Nullptr(zmq_socket)
    /\ context' = Nullptr(context)
    /\ nrelease' = nrelease + 1
    /\ EndOnly

\* ------------------------------------------------------------------------
\* ROI_Fit_Routine::fit_spectra, for one element
\* ------------------------------------------------------------------------

\* an unsigned int is a pair <<high 16 bits, low 16 bits>>
Half == 65536

\* conversion of an int to unsigned int (modulo 2^32)
ToU(x) == <<(x \div Half) % Half, x % Half>>

USub(a, b) ==
    LET lo == a[2] - b[2]
        borrow == IF lo < 0 THEN 1 ELSE 0
    IN  <<(a[1] - b[1] - borrow) % Half, lo % Half>>

UAdd(a, b) ==
    LET lo == a[2] + b[2]
    IN  <<(a[1] + b[1] + (lo \div Half)) % Half, lo % Half>>

ULess(a, b) == a[1] < b[1] \/ (a[1] = b[1] /\ a[2] < b[2])

\* int(x / y) for y > 0: the quotient truncated toward zero
IntOf(x, y) == IF x >= 0 THEN x \div y ELSE -((-x) \div y)

\* line 87: int(((center - width / 2.0 / 1000.0) - offset) / slope), energies in eV
LeftInt(in) ==
    IntOf(2 * in.center - in.width - 2 * in.offset, 2 * in.slope)

\* line 88: int(((center + width / 2.0 / 1000.0) - offset) / slope)
RightInt(in) ==
    IntOf(2 * in.center + in.width - 2 * in.offset, 2 * in.slope)

\* lines 90-93
ClampRightHigh(n, roi) ==
    IF ~ULess(roi.right, n) THEN [roi EXCEPT !.right = USub(n, ToU(2))] ELSE roi

\* lines 94-97
ClampLeftOverRight(n, roi) ==
    IF ULess(roi.right, roi.left) THEN [roi EXCEPT !.left = USub(roi.right, ToU(1))] ELSE roi

\* lines 98-101: left_roi is unsigned, 0 converts to unsigned 0
ClampLeftNegative(n, roi) ==
    IF ULess(roi.left, ToU(0)) THEN [roi EXCEPT !.left = ToU(1)] ELSE roi

\* lines 102-105
ClampRightNegative(n, roi) ==
    IF ULess(roi.right, ToU(0)) THEN [roi EXCEPT !.right = USub(n, ToU(2))] ELSE roi

\* (mutation) the right channel is left out of the range
SpecSizeExclusive(roi) == USub(roi.right, roi.left)

\* line 110: size_t spec_size = (right_roi + 1) - left_roi, in unsigned int
SpecSize(roi) == USub(UAdd(roi.right, ToU(1)), roi.left)

\* the spectra passed to fit_spectra: channel i (from 0) of a spectrum of shape s
SpectrumAt(s, i) == IF s = "ramp" THEN i + 1 ELSE 1

\* Eigen: segment(start, size) lies inside an array of n coefficients
SegmentInside(n, start, size) ==
    /\ start[1] = 0 /\ size[1] = 0
    /\ start[2] + size[2] <= n

RECURSIVE SegmentSum(_, _, _)
\* line 112: spectra->segment(start, size).sum()
SegmentSum(s, start, size) ==
    IF size = 0 THEN 0
    ELSE SpectrumAt(s, start) + SegmentSum(s, start + 1, size - 1)

\* lines 79-110 for one element
Roi(in) ==
    LET n == ToU(in.n)
        r0 == [left |-> ToU(LeftInt(in)), right |-> ToU(RightInt(in))]
        r4 == ClampRightNegative(n, ClampLeftNegative(n,
                    ClampLeftOverRight(n, ClampRightHigh(n, r0))))
    IN  [computed_left |-> LeftInt(in), computed_right |-> RightInt(in),
         left_roi |-> r4.left, right_roi |-> r4.right,
         spec_size |-> SpecSize(r4), counts |-> 0]

\* energies are multiples of 125 eV and slopes 500 or 1000 eV per channel, for
\* which the double arithmetic of lines 87-88 is exact
RoiLengths == (1 .. MaxN) \cup {2048}
RoiCenters == {500 * k : k \in -4 .. (2 * MaxN + 4)} \cup {1000 * k : k \in 2045 .. 2050}
RoiWidths == {0, 250, 1000, 2000, 4000, 12000}
RoiOffsets == {-500, 0, 1000}
RoiSlopes == {500, 1000}
RoiShapes == {"ramp", "flat"}
\* what a read outside the array may yield
Garbage == {0, 7}

NoRoi == [computed_left |-> 0, computed_right |-> 0, left_roi |-> <<0, 0>>,
          right_roi |-> <<0, 0>>, spec_size |-> <<0, 0>>, counts |-> 0]

\* no fit is made
RoiOff ==
    /\ roi_pc = "off"
    /\ roi_in = [n |-> 1, center |-> 0, width |-> 0, offset |-> 0, slope |-> 1000,
                 spectra |-> "flat"]
    /\ roi_out = NoRoi

RoiInit ==
    /\ roi_pc = "call"
    /\ roi_in \in [n : RoiLengths, center : RoiCenters, width : RoiWidths,
                   offset : RoiOffsets, slope : RoiSlopes, spectra : RoiShapes]
    /\ roi_out = NoRoi

\* ROI_Fit_Routine::fit_spectra(model, spectra, elements_to_fit)
\* A segment outside the array fails Eigen's assertion (the call does not
\* return) or, in a build without assertions, reads outside the array.
fit_spectra ==
    /\ roi_pc = "call"
    /\ LET r == Roi(roi_in)
       IN  IF SegmentInside(roi_in.n, r.left_roi, r.spec_size)
            THEN /\ roi_out' = [r EXCEPT !.counts =
                        SegmentSum(roi_in.spectra, r.left_roi[2], r.spec_size[2])]
                 /\ roi_pc' = "done"
            ELSE \/ /\ roi_out' = r
                    /\ roi_pc' = "assert"
                 \/ /\ \E g \in Garbage : roi_out' = [r EXCEPT !.counts = g]
                    /\ roi_pc' = "done"
    /\ UNCHANGED roi_in
    /\ RoiOnly

\* ------------------------------------------------------------------------
\* Specifications
\* ------------------------------------------------------------------------

\* the accumulator before any call, with a callback registered or not
AccOff ==
    /\ AccInit
    /\ output_callback_func = TRUE

\* one producer thread: every call runs to its return before the next starts
Init == AccInit /\ SinkInit /\ RoiOff
Next ==
    \/ \E t \in SeqThreads : cb_load_spectra_data(t) \/ Statement(t)
    \/ consumer_release
Spec == Init /\ [][Next]_vars

\* two producer threads whose calls interleave statement by statement
ConcNext ==
    \/ \E t \in Threads : cb_load_spectra_data(t) \/ Statement(t)
    \/ consumer_release
SpecConc == Init /\ [][ConcNext]_vars

\* two producer threads, each feeding its own detector
IsoNext ==
    \/ \E t \in Threads : cb_load_spectra_data_own(t) \/ Statement(t)
    \/ consumer_release
SpecIso == Init /\ [][IsoNext]_vars

\* two threads call stream() on one sink
SinkNext ==
    \E t \in Threads :
        stream(t) \/ encode(t) \/ send_topic(t) \/ send_message(t) \/ check_val(t)
InitSink == AccOff /\ SinkInit /\ RoiOff
SpecSink == InitSink /\ [][SinkNext]_vars

\* one producer thread, then the teardown of the accumulator
TeardownNext == Next \/ destructor
SpecTeardown == Init /\ [][TeardownNext]_vars

\* one producer thread feeding one detector, its callback bound to the queue of
\* a sink whose thread sends at its own pace. The producer thread keeps running
\* (weak fairness on its statements); nothing is assumed of the sink's sends.
PipeNext ==
    \/ \E t \in SeqThreads : cb_load_spectra_data_own(t) \/ PipeStatement(t)
    \/ sink_function
    \/ stream_returns
SpecPipe ==
    /\ Init
    /\ [][PipeNext]_vars
    /\ WF_vars(\E t \in SeqThreads : PipeStatement(t))

\* the sink is configured, then two threads call stream() on it
SinkModesNext == SinkNext \/ set_send_spectra \/ set_send_counts
SpecSinkModes == InitSink /\ [][SinkModesNext]_vars

\* the sink's life: publishes, then the release of its endpoint (run again on the
\* released endpoint)
SinkLifeNext == SinkNext \/ release
SpecSinkLife == InitSink /\ [][SinkLifeNext]_vars

\* one call of fit_spectra on inputs drawn from the bounded sets
InitRoi == AccOff /\ SinkInit /\ RoiInit
SpecRoi == InitRoi /\ [][fit_spectra]_vars

\* ------------------------------------------------------------------------
\* Properties of the accumulator under sequential calls (Spec)
\* ------------------------------------------------------------------------

Det(t) == args[t].detector_num

\* the Frames the accumulator owns for detector d
Owned(d) ==
    {b \in DOMAIN heap : heap[b].owner = "producer" /\ heap[b].detector_number = d}

\* C1: when every frame of a detector comes in increasing scan order and a
\* callback is registered, a call that has returned invoked the callback exactly
\* once if its fragment was the sentinel (row = height and col = width), also
\* when that fragment was the only one of its frame, and not at all otherwise.
C1_CallbackOncePerFrame ==
    \A t \in Threads :
        (pc[t] = "done" /\ in_order[Det(t)] /\ output_callback_func)
            => fired[t] = (IF Sentinel(args[t]) THEN 1 ELSE 0)

\* C2: right after the callback was invoked with a Frame, the spectrum it was
\* handed is the channel-wise sum of all fragments ingested for the detector
\* since the Frame was created.
C2_DeliveredSpectrumIsSum ==
    \A t \in Threads :
        (pc[t] = "erase" /\ fired[t] = 1) => delivered[Det(t)] = ingested[Det(t)]

\* a callback was just invoked with a Frame that holds at least a seeding and a
\* folded fragment
C2_Witness ==
    \E t \in Threads :
        /\ pc[t] = "erase" /\ fired[t] = 1
        /\ delivered[Det(t)] # <<>>
        /\ delivered[Det(t)][1] >= 3

\* no call is running
Quiescent == \A t \in Threads : pc[t] \in {"idle", "done", "threw"}

C3_AtMostOnePending ==
    \A d \in Detectors :
        /\ Cardinality(Owned(d)) <= 1
        /\ Quiescent => Owned(d) = {stream_block_list[d]} \ {0}

C3_MapStep ==
    \A d \in Detectors :
        stream_block_list'[d] # stream_block_list[d] =>
            \* a Frame enters the pending set only when it is created
            \/ /\ stream_block_list[d] = 0
               /\ stream_block_list'[d] \notin DOMAIN heap
               /\ stream_block_list'[d] \in DOMAIN heap'
            \* and leaves it only in the erase of a call with the sentinel
            \/ /\ stream_block_list'[d] = 0
               /\ \E t \in Threads :
                    /\ pc[t] = "erase" /\ pc'[t] = "done"
                    /\ Det(t) = d
                    /\ Sentinel(args[t])

\* C3: after every statement of every call the accumulator owns at most one
\* Frame per detector id, and between calls the pending set holds exactly the
\* Frames it owns; a Frame enters the
\* pending set only when it is created, so it is removed at most once, and it is
\* removed only by a call for its detector id whose fragment has col = width
\* and row = height.
C3_PendingSet == []C3_AtMostOnePending /\ [][C3_MapStep]_vars

\* a sentinel call has returned and removed the detector's Frame
C3_Witness ==
    \E t \in Threads :
        /\ pc[t] = "done"
        /\ Sentinel(args[t])
        /\ fired[t] + released[t] = 1
        /\ stream_block_list[Det(t)] = 0

\* C4: with no callback registered, a returned call whose fragment was the
\* completion fragment released the detector's Frame exactly once and left the
\* detector id out of the pending set; and, callback or not, a returned call
\* whose fragment was the first after a completion fragment left a new Frame
\* pending whose spectrum is that fragment alone.
C4_DiscardAndRestart ==
    \A t \in Threads :
        pc[t] = "done" =>
            /\ (Sentinel(args[t]) /\ ~output_callback_func)
                    => (released[t] = 1 /\ stream_block_list[Det(t)] = 0)
            /\ (args[t].first /\ ~Sentinel(args[t]))
                    => /\ stream_block_list[Det(t)] \in DOMAIN heap
                       /\ heap[stream_block_list[Det(t)]].spectra = args[t].spectra

\* ------------------------------------------------------------------------
\* Properties of the accumulator under concurrent calls
\* ------------------------------------------------------------------------

\* no call for detector d is running
Settled(d) == \A t \in Threads : pc[t] \in {"idle", "done", "threw"} \/ Det(t) # d

\* every fragment ingested for d was handed on in a Frame, or is in the pending
\* Frame of d
Accounted(d) ==
    owed[d] = IF stream_block_list[d] \in DOMAIN heap
                THEN heap[stream_block_list[d]].spectra
                ELSE Zero

\* C5: two threads feed one detector each (SpecIso). Whenever no call for a
\* detector is running, the fragments ingested for it are exactly those of the
\* Frames handed on plus those of its pending Frame (nothing lost, nothing from
\* the other detector), and a returned sentinel call that was not the first of
\* its frame has invoked the registered callback once.
C5_DetectorIsolation ==
    \A d \in Detectors :
        Settled(d) =>
            /\ Accounted(d)
            /\ \A t \in Threads :
                (pc[t] = "done" /\ Det(t) = d /\ Sentinel(args[t])
                    /\ ~args[t].first /\ output_callback_func) => fired[t] = 1

\* C6: two threads feed any detector, the same one included (SpecConc). The
\* accumulator never owns a second Frame for a detector, and whenever no call
\* for a detector is running no fragment ingested for it is lost.
C6_SameDetectorSerialized ==
    \A d \in Detectors :
        /\ Cardinality(Owned(d)) <= 1
        /\ Settled(d) => Accounted(d)

\* ------------------------------------------------------------------------
\* Properties of the publish sink (SpecSink)
\* ------------------------------------------------------------------------

\* the parts the current call of thread t has handed to send, in order
PartsOf(t) ==
    LET Mine(m) == m.call = call_id[t] IN SelectSeq(wire, Mine)

\* C7: on the sink, every topic part is followed directly by the payload part
\* of the same call, and every payload part by a topic part: the parts of two
\* publish calls never interleave.
C7_PublishAtomic ==
    \A i \in 1 .. (Len(wire) - 1) :
        IF wire[i].sndmore
            THEN ~wire[i + 1].sndmore /\ wire[i + 1].call = wire[i].call
            ELSE wire[i + 1].sndmore

\* C8: a publish call that has returned has handed exactly two parts to send:
\* first the topic, the 10 bytes "XRF-Counts", flagged ZMQ_SNDMORE, then one
\* payload part flagged final; in counts mode the payload is the serializer's
\* encoding of the block passed to that call. A call still running has sent a
\* prefix of these.
C8_TwoPartsInOrder ==
    \A t \in Threads :
        LET parts == PartsOf(t)
        IN  /\ Len(parts) <= 2
            /\ sink_pc[t] = "done" => Len(parts) = 2
            /\ Len(parts) >= 1 =>
                    /\ parts[1].msg.data = "XRF-Counts"
                    /\ parts[1].msg.size = 10
                    /\ Len(parts[1].msg.data) = 10
                    /\ parts[1].sndmore
            /\ Len(parts) = 2 =>
                    /\ ~parts[2].sndmore
                    /\ send_counts =>
                            /\ parts[2].msg.data = encode_counts(sink_block[t])
                            /\ parts[2].msg.size = Len(parts[2].msg.data)

\* both threads have published, each its own block, in counts mode
C8_Witness ==
    /\ send_counts
    /\ \A t \in Threads : sink_pc[t] = "done" /\ Len(PartsOf(t)) = 2
    /\ sink_block[1] # sink_block[2]

\* C9: a publish call that has returned and in which the send of a part failed
\* has logged the failure, and has made no further send attempt (two parts in
\* all).
C9_SendFailureLogged ==
    \A t \in Threads :
        sink_pc[t] = "done" =>
            /\ Len(PartsOf(t)) = 2
            /\ (\E i \in 1 .. 2 : ~PartsOf(t)[i].ok) => logged[t] >= 1

\* ------------------------------------------------------------------------
\* Properties of the ROI fit (SpecRoi)
\* ------------------------------------------------------------------------

\* C10: for a spectrum of at least two channels, whenever the computed left
\* channel is negative, the left channel used for the sum is 1, whatever the
\* computed right channel.
C10_NegativeLeftBecomesOne ==
    (roi_pc = "done" /\ roi_in.n >= 2 /\ roi_out.computed_left < 0)
        => roi_out.left_roi = ToU(1)

\* fit_spectra has run on a spectrum of at least two channels
RoiRan == roi_pc \in {"done", "assert"} /\ roi_in.n >= 2

\* C11: for a spectrum of n >= 2 channels, whenever the computed right channel
\* is >= n or negative the final right channel is n - 2, and whenever the
\* computed left channel is not negative and greater than the right channel
\* after the right clamp, the final left channel is one below the right channel.
C11_RightAndLeftOverRightClamps ==
    RoiRan =>
        /\ (roi_out.computed_right >= roi_in.n \/ roi_out.computed_right < 0)
                => roi_out.right_roi = ToU(roi_in.n - 2)
        /\ (roi_out.computed_left >= 0
                /\ ULess(roi_out.right_roi, ToU(roi_out.computed_left)))
                => /\ ULess(roi_out.left_roi, roi_out.right_roi)
                   /\ UAdd(roi_out.left_roi, ToU(1)) = roi_out.right_roi

\* no clamp fires: the computed channels satisfy 0 <= left <= right <= n - 1
NoClamp ==
    /\ 0 <= roi_out.computed_left
    /\ roi_out.computed_left <= roi_out.computed_right
    /\ roi_out.computed_right <= roi_in.n - 1

\* C12: when no clamp fires the call returns and the stored count is the sum of
\* channels left through right inclusive; with offset 0, slope 1 keV, center
\* 5.0 keV and width 2000 eV it is the sum of channels 4, 5 and 6.
C12_CountIsInclusiveSum ==
    (roi_pc \in {"done", "assert"} /\ NoClamp) =>
        /\ roi_pc = "done"
        /\ roi_out.counts =
                SegmentSum(roi_in.spectra, roi_out.computed_left,
                           roi_out.computed_right - roi_out.computed_left + 1)
        /\ (roi_in.center = 5000 /\ roi_in.width = 2000 /\ roi_in.offset = 0
                /\ roi_in.slope = 1000)
                => roi_out.counts = SpectrumAt(roi_in.spectra, 4)
                        + SpectrumAt(roi_in.spectra, 5) + SpectrumAt(roi_in.spectra, 6)

\* the fit of the element at 5.0 keV, 2000 eV wide, on a 2048-channel ramp
C12_Witness ==
    /\ roi_pc = "done" /\ NoClamp
    /\ roi_in = [n |-> 2048, center |-> 5000, width |-> 2000, offset |-> 0,
                 slope |-> 1000, spectra |-> "ramp"]
    /\ roi_out.counts = 18

\* C14: for every spectrum length n >= 1 and every computed pair, the call
\* returns and the range it summed satisfies 0 <= left <= right <= n - 1.
C14_RangeAlwaysValid ==
    roi_pc \in {"done", "assert"} =>
        /\ roi_pc = "done"
        /\ ~ULess(roi_out.right_roi, roi_out.left_roi)
        /\ ULess(roi_out.right_roi, ToU(roi_in.n))
        /\ SegmentInside(roi_in.n, roi_out.left_roi, roi_out.spec_size)

\* the largest integer not above x / y, for y > 0
FloorOf(x, y) == x \div y

\* C15: the channels computed before clamping are the floor of
\* (energy bound - offset) / slope, also for a negative quotient that is not an
\* integer.
C15_ComputedChannelsAreFloor ==
    roi_pc \in {"done", "assert"} =>
        /\ roi_out.computed_left =
                FloorOf(2 * roi_in.center - roi_in.width - 2 * roi_in.offset,
                        2 * roi_in.slope)
        /\ roi_out.computed_right =
                FloorOf(2 * roi_in.center + roi_in.width - 2 * roi_in.offset,
                        2 * roi_in.slope)

\* ------------------------------------------------------------------------
\* Properties of the endpoint's release (SpecSinkLife)
\* ------------------------------------------------------------------------

C13_FreedAtMostOnce ==
    /\ freed.socket_close <= 1 /\ freed.socket_delete <= 1
    /\ freed.context_close <= 1 /\ freed.context_delete <= 1
    /\ nrelease >= 1 => (zmq_socket = 0 /\ context = 0 /\ freed.socket_delete = 1
                            /\ freed.context_delete = 1)

C13_ReleaseAgainIsNoOp ==
    (nrelease' # nrelease /\ nrelease >= 1)
        => UNCHANGED <<zmq_socket, context, freed>>

\* C13: the socket and the context are closed and deleted at most once (once
\* when a release has run), and a release run on an endpoint already released
\* changes nothing.
C13_ReleaseIdempotent == []C13_FreedAtMostOnce /\ [][C13_ReleaseAgainIsNoOp]_vars

\* the release has run twice, after a publish
C13_Witness ==
    /\ nrelease = 2
    /\ npublish >= 1
    /\ freed.socket_delete = 1 /\ freed.context_delete = 1

\* ------------------------------------------------------------------------
\* Further properties of the accumulator (Spec, SpecTeardown)
\* ------------------------------------------------------------------------

\* C16: after a call that leaves a Frame pending for its detector, and when a
\* Frame is about to be handed to the callback, the Frame's row and col are
\* those of the fragment of that call (the most recent one for the detector).
C16_FramePositionIsCurrent ==
    \A t \in SeqThreads :
        /\ (pc[t] = "done" /\ stream_block_list[Det(t)] \in DOMAIN heap)
                => /\ heap[stream_block_list[Det(t)]].row = args[t].row
                   /\ heap[stream_block_list[Det(t)]].col = args[t].col
        /\ (pc[t] = "callback" /\ stream_block[t] \in DOMAIN heap)
                => /\ heap[stream_block[t]].row = args[t].row
                   /\ heap[stream_block[t]].col = args[t].col

\* C17: the fragment of a call that has returned either seeded the Frame the
\* call created (the Frame holds the pointer and the call did not delete it), or
\* was added into the existing Frame and deleted exactly once; at no time is a
\* fragment both held by a Frame and deleted, or deleted twice.
C17_FragmentOwnedOrReleasedOnce ==
    \A t \in SeqThreads :
        /\ frag[t].deleted <= 1
        /\ ~(frag[t].owned /\ frag[t].deleted >= 1)
        /\ pc[t] = "done" =>
                \/ /\ frag[t].owned /\ frag[t].deleted = 0
                   /\ stream_block_list[Det(t)] \in DOMAIN heap
                   /\ heap[stream_block_list[Det(t)]].spectra = args[t].spectra
                \/ /\ ~frag[t].owned /\ frag[t].deleted = 1

\* both ends have happened: a fragment seeded a Frame, a later one was folded
\* into it and deleted
C17_Witness ==
    \E t \in SeqThreads :
        /\ pc[t] = "done"
        /\ ~frag[t].owned /\ frag[t].deleted = 1
        /\ ncalls >= 2
        /\ stream_block_list[Det(t)] \in DOMAIN heap

\* C18: after the teardown of the accumulator the pending set is empty and
\* every Frame that was pending has been released (the accumulator owns no
\* Frame any more).
C18_TeardownReleasesPending ==
    (\A t \in Threads : pc[t] = "destroyed") =>
        \A d \in Detectors : stream_block_list[d] = 0 /\ Owned(d) = {}

\* ------------------------------------------------------------------------
\* Properties of the sink's modes (SpecSinkModes)
\* ------------------------------------------------------------------------

\* the payload part of the current call of thread t
Payload(t) == PartsOf(t)[2].msg.data

\* C19: a publish is made in exactly one of the two modes; in spectrum mode
\* (send-spectra on, send-counts off) its payload is the serializer's encoding
\* of the block's spectrum, in counts mode the encoding of its counts.
C19_SpectrumModePayload ==
    \A t \in Threads :
        (sink_pc[t] = "done" /\ Len(PartsOf(t)) = 2) =>
            /\ ~(send_counts /\ send_spectra)
            /\ (send_spectra /\ ~send_counts)
                    => Payload(t) = encode_spectra(sink_block[t])
            /\ (send_counts /\ ~send_spectra)
                    => Payload(t) = encode_counts(sink_block[t])

\* ------------------------------------------------------------------------
\* Properties of the accumulator feeding the sink (SpecPipe)
\* ------------------------------------------------------------------------

C21_NoUseAfterHandOff ==
    \A t \in Threads :
        pc[t] = "add" =>
            /\ stream_block[t] \in DOMAIN heap
            /\ heap[stream_block[t]].owner = "producer"

====
